---------------------------- MODULE Spec2Model ----------------------------
(***************************************************************************)
(* A model of gmalthgtparser/parser.py: HgtParser, HgtValueIterator and    *)
(* HgtSampleIterator.                                                      *)
(*                                                                         *)
(* fractions.Fraction values are pairs <<numerator, denominator>> in      *)
(* lowest terms with a positive denominator, built by the same arithmetic  *)
(* the Fraction class performs.  A float is <<numerator, denominator,     *)
(* "float">>: a binary floating point number rounded to nearest, ties to   *)
(* even, as IEEE 754 doubles are, with a significand of FloatBits bits     *)
(* instead of 53.  Python tuples are TLA+ tuples, so the                   *)
(* 0-based index i of the source is the index i + 1 here.  An optional     *)
(* Python value (an int or None) is a tuple of length one or zero.         *)
(* A call's outcome is <<"ok", value>>, <<"raise", message>> or, for an   *)
(* iterator, <<"stop">> (StopIteration).                                   *)
(***************************************************************************)
EXTENDS Integers, Sequences, FiniteSets, TLC

VARIABLES
    filename,     \* HgtParser.filename, a sequence of characters
    sample_lat,   \* HgtParser.sample_lat, number of lines
    sample_lng,   \* HgtParser.sample_lng, number of columns
    data,         \* the bytes of the file: data[o + 1] is the byte at offset o
    python3,      \* TRUE when run by Python 3.x, FALSE when run by Python 2.7
    square_width,       \* HgtParser.square_width
    square_height,      \* HgtParser.square_height
    area_width,         \* HgtParser.area_width
    area_height,        \* HgtParser.area_height
    bottom_left_center, \* HgtParser.bottom_left_center
    corners,            \* HgtParser.corners
    top_left_square,    \* HgtParser.top_left_square
    file,         \* HgtParser.file: <<>> is None, <<"rb">> is the opened file
    vit,          \* the HgtValueIterator the model follows: <<>> or <<iterator>>
    vout,         \* the items its next() has returned, oldest first
    vlast,        \* the outcome of the last call of its next(), <<>> before it
    vraised,      \* how many calls of its next() have raised an error
    vstopped,     \* how many calls of its next() have raised StopIteration
    sit,          \* the HgtSampleIterator the model follows: <<>> or <<iterator>>
    sout,         \* the items its next() has returned, oldest first
    slast,        \* the outcome of the last call of its next(), <<>> before it
    sstopped,     \* how many calls of its next() have raised StopIteration
    call          \* the call of a parser method that has not returned to its
                  \* caller yet, <<name, arguments, outcome>>, or <<>>

\* what is set when the parser is constructed and never assigned again
parser_vars == <<filename, sample_lat, sample_lng, data, python3,
                 square_width, square_height, area_width, area_height,
                 bottom_left_center, corners, top_left_square>>

value_vars == <<vit, vout, vlast, vraised, vstopped>>

sample_vars == <<sit, sout, slast, sstopped>>

vars == <<parser_vars, file, value_vars, sample_vars, call>>

-----------------------------------------------------------------------------
(* Bounds of the model *)

\* lines and columns of a file range over 2..MaxSample
MaxSample == 3

\* width and height of a sample area range over 1..MaxBlock
MaxBlock == 4

\* calls of next() of the value iterator that raise an error
MaxRaised == 2

\* positions are taken every 1 / (2 * PosSteps) of a square on both axes, from
\* one step outside the area to one step outside it on the other side
PosSteps == 2

\* a run follows at most MaxStopped calls of next() that raise StopIteration
MaxStopped == 2

\* bits of the significand of a float
FloatBits == 6

-----------------------------------------------------------------------------
(* fractions.Fraction *)

Abs(n) == IF n < 0 THEN -n ELSE n

RECURSIVE GCD(_, _)
GCD(a, b) == IF b = 0 THEN a ELSE GCD(b, a % b)

\* Fraction(n, d): normalised, the sign carried by the numerator
Fraction(n, d) ==
    LET s == IF d < 0 THEN -1 ELSE 1
        g == GCD(Abs(n), Abs(d))
    IN  <<(s * n) \div g, (s * d) \div g>>

FAdd(a, b) == Fraction(a[1] * b[2] + b[1] * a[2], a[2] * b[2])
FSub(a, b) == Fraction(a[1] * b[2] - b[1] * a[2], a[2] * b[2])
FMul(a, b) == Fraction(a[1] * b[1], a[2] * b[2])
FDiv(a, b) == Fraction(a[1] * b[2], a[2] * b[1])
\* a < b, exact also when one of them is a float
FLt(a, b) == a[1] * b[2] < b[1] * a[2]
FInt(i) == Fraction(i, 1)

\* round() of Python 3 on a Fraction or a float: round half to even
RoundHalfEven(x) ==
    LET floor == x[1] \div x[2]
        remainder == x[1] % x[2]
    IN  IF remainder * 2 < x[2] THEN floor
        ELSE IF remainder * 2 > x[2] THEN floor + 1
        ELSE IF floor % 2 = 0 THEN floor
        ELSE floor + 1

\* round() of Python 2 on a float: round half away from zero
RoundHalfAway(x) ==
    IF x[1] >= 0 THEN (2 * x[1] + x[2]) \div (2 * x[2])
    ELSE -((2 * (-x[1]) + x[2]) \div (2 * x[2]))

RECURSIVE Pow2(_)
Pow2(n) == IF n = 0 THEN 1 ELSE 2 * Pow2(n - 1)

IsFloat(x) == Len(x) = 3

\* the exponent e of the float nearest to s > 0: 2^(FloatBits - 1) <= s / 2^e < 2^FloatBits
RECURSIVE Exponent(_)
Exponent(s) ==
    IF ~FLt(s, FInt(Pow2(FloatBits))) THEN Exponent(FDiv(s, FInt(2))) + 1
    ELSE IF FLt(s, FInt(Pow2(FloatBits - 1))) THEN Exponent(FMul(s, FInt(2))) - 1
    ELSE 0

\* 2^e as a Fraction
FPow2(e) == IF e >= 0 THEN FInt(Pow2(e)) ELSE Fraction(1, Pow2(-e))

\* the float of exponent e nearest to s > 0, ties to even
FloatScale(s, e) == FMul(FInt(RoundHalfEven(FDiv(s, FPow2(e)))), FPow2(e))

FNeg(x) == <<-x[1], x[2]>>

\* the value of the float nearest to the rational x, ties to even
FloatRound(x) ==
    IF x[1] = 0 THEN <<0, 1>>
    ELSE IF x[1] < 0 THEN FNeg(FloatScale(FNeg(x), Exponent(FNeg(x))))
    ELSE FloatScale(<<x[1], x[2]>>, Exponent(x))

\* float(x) of a Fraction or a float
Float(x) == IF IsFloat(x) THEN x ELSE FloatRound(x) \o <<"float">>

\* a - b and a / b: exact between Fractions, else computed on floats
PySub(a, b) ==
    IF IsFloat(a) \/ IsFloat(b) THEN FloatRound(FSub(Float(a), Float(b))) \o <<"float">>
    ELSE FSub(a, b)

PyDiv(a, b) ==
    IF IsFloat(a) \/ IsFloat(b) THEN FloatRound(FDiv(Float(a), Float(b))) \o <<"float">>
    ELSE FDiv(a, b)

\* int(round(x)) under the running interpreter: Python 3 rounds a Fraction and
\* a float half to even, Python 2 converts to float and rounds half away from 0
PyRound(x) == IF python3 THEN RoundHalfEven(x) ELSE RoundHalfAway(Float(x))

\* divmod(a, b) for b > 0
divmod(a, b) == <<a \div b, a % b>>

Min(a, b) == IF a < b THEN a ELSE b

-----------------------------------------------------------------------------
(* range(start, stop, step) for step > 0, as the sequence of its elements *)

\* mutant of RangeLen: the quotient rounded down
RangeLen_floor(start, stop, step) ==
    IF stop <= start THEN 0 ELSE (stop - start) \div step

RangeLen(start, stop, step) ==
    IF stop <= start THEN 0 ELSE (stop - start + step - 1) \div step

PyRange(start, stop, step) ==
    [i \in 1..RangeLen(start, stop, step) |-> start + (i - 1) * step]

-----------------------------------------------------------------------------
(* HgtParser: what __init__ uses *)

VOID_VALUE == -32768

Digits == <<"0", "1", "2", "3", "4", "5", "6", "7", "8", "9">>

IsDigit(c) == \E d \in 1..10 : Digits[d] = c

DigitValue(c) == (CHOOSE d \in 1..10 : Digits[d] = c) - 1

\* the longest run of digits of s that starts at index i, as [0-9]+ matches it
RECURSIVE DigitRun(_, _)
DigitRun(s, i) ==
    IF i <= Len(s) /\ IsDigit(s[i]) THEN <<s[i]>> \o DigitRun(s, i + 1) ELSE <<>>

\* int(digits)
RECURSIVE ParseInt(_)
ParseInt(ds) ==
    IF ds = <<>> THEN 0
    ELSE 10 * ParseInt(SubSeq(ds, 1, Len(ds) - 1)) + DigitValue(ds[Len(ds)])

\* the groups of '^([NS])([0-9]+)([WE])([0-9]+).*' on name, <<>> without a match
FilenameGroups(name) ==
    IF Len(name) < 1 \/ name[1] \notin {"N", "S"} THEN <<>>
    ELSE LET lat == DigitRun(name, 2)
             k == 2 + Len(lat)
         IN  IF lat = <<>> \/ k > Len(name) \/ name[k] \notin {"W", "E"} THEN <<>>
             ELSE LET lng == DigitRun(name, k + 1)
                  IN  IF lng = <<>> THEN <<>>
                      ELSE <<name[1], lat, name[k], lng>>

_get_bottom_left_center(name) ==
    LET groups == FilenameGroups(name)
        lat == FInt(ParseInt(groups[2]))
        lng == FInt(ParseInt(groups[4]))
    IN  <<IF groups[1] = "S" THEN FMul(lat, FInt(-1)) ELSE lat,
          IF groups[3] = "W" THEN FMul(lng, FInt(-1)) ELSE lng>>

\* mutant of _get_corners_from_filename: half a square added to the center
_get_corners_from_filename_added(bottom_left_corner) ==
    LET bottom_left == <<FAdd(bottom_left_corner[1], FDiv(square_height, FInt(2))),
                         FAdd(bottom_left_corner[2], FDiv(square_width, FInt(2)))>>
        top_left == <<FAdd(bottom_left[1], area_height), bottom_left[2]>>
        top_right == <<top_left[1], FAdd(top_left[2], area_width)>>
        bottom_right == <<bottom_left[1], FAdd(bottom_left[2], area_width)>>
    IN  <<bottom_left, top_left, top_right, bottom_right>>

_get_corners_from_filename(bottom_left_corner) ==
    LET bottom_left == <<FSub(bottom_left_corner[1], FDiv(square_height, FInt(2))),
                         FSub(bottom_left_corner[2], FDiv(square_width, FInt(2)))>>
        top_left == <<FAdd(bottom_left[1], area_height), bottom_left[2]>>
        top_right == <<top_left[1], FAdd(top_left[2], area_width)>>
        bottom_right == <<bottom_left[1], FAdd(bottom_left[2], area_width)>>
    IN  <<bottom_left, top_left, top_right, bottom_right>>

_get_top_left_square ==
    << <<FSub(corners[2][1], square_height), corners[2][2]>>,
       corners[2],
       <<corners[2][1], FAdd(corners[2][2], square_width)>>,
       <<FSub(corners[2][1], square_height), FAdd(corners[2][2], square_width)>> >>

nb_values == sample_lat * sample_lng

-----------------------------------------------------------------------------
(* HgtParser: methods.  The file's seek position is left out: get_value is *)
(* the only reader and seeks to an absolute offset before every read.      *)

OutOfBound == <<"raise", "Out of bound line or col">>

get_square_corners(line, col) ==
    << <<FSub(top_left_square[1][1], FMul(FInt(line), square_height)),
         FAdd(top_left_square[1][2], FMul(FInt(col), square_width))>>,
       <<FSub(top_left_square[2][1], FMul(FInt(line), square_height)),
         FAdd(top_left_square[2][2], FMul(FInt(col), square_width))>>,
       <<FSub(top_left_square[3][1], FMul(FInt(line), square_height)),
         FAdd(top_left_square[3][2], FMul(FInt(col), square_width))>>,
       <<FSub(top_left_square[4][1], FMul(FInt(line), square_height)),
         FAdd(top_left_square[4][2], FMul(FInt(col), square_width))>> >>

\* mutant of NotInGrid: the upper limits included
NotInGrid_inclusive(line, col) ==
    ~(0 <= line /\ line <= sample_lat) \/ ~(0 <= col /\ col <= sample_lng)

\* not 0 <= line < self.sample_lat or not 0 <= col < self.sample_lng
NotInGrid(line, col) ==
    ~(0 <= line /\ line < sample_lat) \/ ~(0 <= col /\ col < sample_lng)

shift_first_square(line, col) ==
    IF NotInGrid(line, col) THEN OutOfBound
    ELSE <<"ok", [i \in 1..Len(top_left_square) |->
                    <<FSub(top_left_square[i][1], FMul(FInt(line), square_height)),
                      FAdd(top_left_square[i][2], FMul(FInt(col), square_width))>>]>>

\* mutant of is_inside: the bottom and left edges included
is_inside_edges(point) ==
    /\ ~FLt(point[1], corners[1][1])
    /\ ~FLt(point[2], corners[1][2])
    /\ FLt(point[1], corners[3][1])
    /\ FLt(point[2], corners[3][2])

is_inside(point) ==
    /\ FLt(corners[1][1], point[1])
    /\ FLt(corners[1][2], point[2])
    /\ FLt(point[1], corners[3][1])
    /\ FLt(point[2], corners[3][2])

\* mutant of get_idx: the line multiplied by the number of lines
get_idx_by_lat(col, line) ==
    IF ~(0 <= line /\ line < sample_lat) \/ ~(0 <= col /\ col < sample_lng)
    THEN <<"raise", "Out of bound line or col">>
    ELSE <<"ok", line * sample_lat + col>>

get_idx(col, line) ==
    IF NotInGrid(line, col) THEN OutOfBound
    ELSE <<"ok", line * sample_lng + col>>

\* struct.unpack('>h', buf) of two bytes
unpack_h(buf) ==
    LET u == buf[1] * 256 + buf[2]
    IN  IF u >= 32768 THEN u - 65536 ELSE u

\* file.read(2) at offset: the bytes that are there, fewer at the end of the file
read2(offset) ==
    [i \in 1..Min(2, Len(data) - offset) |-> data[offset + i]]

\* mutant of get_value: reads the bytes whether the file is open or not
get_value_unopened(idx) ==
    IF idx < 0 THEN <<"raise", "IOError">>
    ELSE LET buf == IF idx * 2 >= Len(data) THEN <<>> ELSE read2(idx * 2)
         IN  IF Len(buf) # 2 THEN <<"raise", "struct.error">>
             ELSE <<"ok", unpack_h(buf)>>

\* self.file is None when the parser is not entered: self.file.seek raises
get_value(idx) ==
    IF file = <<>> THEN <<"raise", "AttributeError">>
    ELSE IF idx < 0 THEN <<"raise", "IOError">>
    ELSE LET buf == IF idx * 2 >= Len(data) THEN <<>> ELSE read2(idx * 2)
         IN  IF Len(buf) # 2 THEN <<"raise", "struct.error">>
             ELSE <<"ok", unpack_h(buf)>>

NotInside == <<"raise", "point is not inside HGT file">>

\* mutant of get_idx_in_file: counted from the bottom left corner of the area
\* idx = lat_idx * self.sample_lng + lng_idx; return lat_idx, lng_idx, idx
idx_in_file(lat_idx, lng_idx) == <<"ok", <<lat_idx, lng_idx, lat_idx * sample_lng + lng_idx>>>>

get_idx_in_file_from_corner(pos) ==
    IF ~is_inside(pos) THEN NotInside
    ELSE idx_in_file((sample_lat - 1)
                        - PyRound(PyDiv(PySub(pos[1], corners[1][1]), square_height)),
                     PyRound(PyDiv(PySub(pos[2], corners[1][2]), square_width)))

get_idx_in_file(pos) ==
    IF ~is_inside(pos) THEN NotInside
    ELSE idx_in_file((sample_lat - 1)
                        - PyRound(PyDiv(PySub(pos[1], bottom_left_center[1]), square_height)),
                     PyRound(PyDiv(PySub(pos[2], bottom_left_center[2]), square_width)))

\* mutant of value_or_none: the value as read
value_as_read(value) == <<value>>

\* value if value != self.VOID_VALUE else None
value_or_none(value) == IF value # VOID_VALUE THEN <<value>> ELSE <<>>

\* the rest of get_elevation once get_idx_in_file and get_value have returned
elevation_of(located, value) ==
    IF value[1] # "ok" THEN value
    ELSE <<"ok", <<located[1], located[2], value_or_none(value[2])>>>>

elevation_at(located) ==
    IF located[1] # "ok" THEN located
    ELSE elevation_of(located[2], get_value(located[2][3]))

get_elevation(pos) == elevation_at(get_idx_in_file(pos))

-----------------------------------------------------------------------------
(* HgtBaseIterator *)

to_float(it, value) == IF it.as_float THEN Float(value) ELSE value

format_corners(it, cs) ==
    [i \in 1..Len(cs) |-> <<to_float(it, cs[i][1]), to_float(it, cs[i][2])>>]

-----------------------------------------------------------------------------
(* HgtValueIterator *)

NewValueIterator(as_float) == [idx |-> 0, as_float |-> as_float]

\* mutant of line_col: divided by the number of lines
line_col_by_lat(current_idx) == divmod(current_idx, sample_lat)

\* line, col = divmod(current_idx, self.parser.sample_lng)
line_col(current_idx) == divmod(current_idx, sample_lng)

\* next(): <<outcome, the iterator after the call>>
value_next(it) ==
    LET current_idx == it.idx
    IN  IF current_idx < sample_lat * sample_lng
        THEN LET lc == line_col(current_idx)
                 square == shift_first_square(lc[1], lc[2])
                 advanced == [it EXCEPT !.idx = @ + 1]
                 value == get_value(current_idx)
             IN  IF square[1] # "ok" THEN <<square, it>>
                 ELSE IF value[1] # "ok" THEN <<value, advanced>>
                 ELSE << <<"ok", <<lc[1], lc[2], current_idx,
                                   format_corners(it, square[2]), value[2]>>>>,
                         advanced >>
        ELSE << <<"stop">>, it >>

-----------------------------------------------------------------------------
(* HgtSampleIterator *)

\* mutant of NewSampleIterator: the steps of the two ranges exchanged
NewSampleIterator_exchanged(width, height, as_float) ==
    [width |-> width, height |-> height,
     range_line |-> PyRange(0, sample_lat, width), idx_line |-> 0,
     range_col |-> PyRange(0, sample_lng, height), idx_col |-> 0,
     as_float |-> as_float]

NewSampleIterator(width, height, as_float) ==
    [width |-> width, height |-> height,
     range_line |-> PyRange(0, sample_lat, height), idx_line |-> 0,
     range_col |-> PyRange(0, sample_lng, width), idx_col |-> 0,
     as_float |-> as_float]

sample_nb_values(it) == Len(it.range_line) * Len(it.range_col)

\* the outcome of a run of calls: the first that raised, else all the values
Collect(outcomes) ==
    IF \E i \in 1..Len(outcomes) : outcomes[i][1] # "ok"
    THEN outcomes[CHOOSE i \in 1..Len(outcomes) :
                      /\ outcomes[i][1] # "ok"
                      /\ \A j \in 1..(i - 1) : outcomes[j][1] = "ok"]
    ELSE <<"ok", [i \in 1..Len(outcomes) |-> outcomes[i][2]]>>

\* mutant of _read_line: the height of the area taken for its width
_read_line_height(it, col_idx, line_idx) ==
    LET cols == PyRange(col_idx, Min(sample_lng, col_idx + it.height), 1)
    IN  Collect([i \in 1..Len(cols) |->
                    LET value_idx == get_idx(cols[i], line_idx)
                    IN  IF value_idx[1] # "ok" THEN value_idx
                        ELSE get_value(value_idx[2])])

_read_line(it, col_idx, line_idx) ==
    LET cols == PyRange(col_idx, Min(sample_lng, col_idx + it.width), 1)
    IN  Collect([i \in 1..Len(cols) |->
                    LET value_idx == get_idx(cols[i], line_idx)
                    IN  IF value_idx[1] # "ok" THEN value_idx
                        ELSE get_value(value_idx[2])])

_get_square_values(it, top_left_col_idx, top_left_line_idx) ==
    LET lines == PyRange(top_left_line_idx,
                         Min(sample_lat, top_left_line_idx + it.height), 1)
    IN  Collect([i \in 1..Len(lines) |-> _read_line(it, top_left_col_idx, lines[i])])

\* mutant of next_band: back to the first band once the last one is done
next_band_restart(it) ==
    IF it.idx_col > Len(it.range_col) - 1
    THEN [it EXCEPT !.idx_col = 0, !.idx_line = @ + 1]
    ELSE IF it.idx_line > Len(it.range_line) - 1
    THEN [it EXCEPT !.idx_line = 0]
    ELSE it

\* the first statement of next(): move to the next band after the last column
next_band(it) ==
    IF it.idx_col > Len(it.range_col) - 1
    THEN [it EXCEPT !.idx_col = 0, !.idx_line = @ + 1]
    ELSE it

\* mutant of area_corners: as many squares east as south
area_corners_square(line, col, values) ==
    LET top_left_corner == get_square_corners(line, col)[2]
        south == FSub(top_left_corner[1], FMul(FInt(Len(values)), square_height))
        east == FAdd(top_left_corner[2], FMul(FInt(Len(values)), square_width))
    IN  << <<south, top_left_corner[2]>>,
           top_left_corner,
           <<top_left_corner[1], east>>,
           <<south, east>> >>

\* the corners of the area of `values` whose top left square is (line, col)
area_corners(line, col, values) ==
    LET top_left_corner == get_square_corners(line, col)[2]
        south == FSub(top_left_corner[1], FMul(FInt(Len(values)), square_height))
        east == FAdd(top_left_corner[2], FMul(FInt(Len(values[1])), square_width))
    IN  << <<south, top_left_corner[2]>>,
           top_left_corner,
           <<top_left_corner[1], east>>,
           <<south, east>> >>

\* next(): <<outcome, the iterator after the call>>
sample_next(it) ==
    LET it1 == next_band(it)
    IN  IF it1.idx_line > Len(it1.range_line) - 1 THEN << <<"stop">>, it1 >>
        ELSE LET top_left_col_idx == it1.range_col[it1.idx_col + 1]
                 top_left_line_idx == it1.range_line[it1.idx_line + 1]
                 values == _get_square_values(it1, top_left_col_idx, top_left_line_idx)
                 idx == get_idx(top_left_col_idx, top_left_line_idx)
             IN  IF values[1] # "ok" THEN <<values, it1>>
                 ELSE IF idx[1] # "ok" THEN <<idx, [it1 EXCEPT !.idx_col = @ + 1]>>
                 ELSE << <<"ok", <<top_left_line_idx, top_left_col_idx, idx[2],
                                   format_corners(it1, area_corners(top_left_line_idx,
                                                                    top_left_col_idx,
                                                                    values[2])),
                                   values[2]>>>>,
                         [it1 EXCEPT !.idx_col = @ + 1] >>

-----------------------------------------------------------------------------
(* The files and the arguments the model draws from *)

Filenames ==
    { <<"N", "0", "0", "E", "0", "1", "0", ".", "h", "g", "t">>,
      <<"S", "2", "0", "W", "0", "3", ".", "h", "g", "t">>,
      <<"N", "0", "1", "W", "0", "0", "1", ".", "h", "g", "t">> }

\* struct.pack('>h', v), as the writer of a file stores a sample
pack_h(v) ==
    LET u == IF v < 0 THEN v + 65536 ELSE v
    IN  <<u \div 256, u % 256>>

\* n samples, all different, the void value at every other index from
\* `first` on when first < 2
Samples(n, first) ==
    [i \in 1..n |-> IF first < 2 /\ (i - 1) % 2 = first THEN VOID_VALUE
                    ELSE 300 * i - 700]

FileOf(samples) ==
    [o \in 1..(2 * Len(samples)) |-> pack_h(samples[(o + 1) \div 2])[2 - (o % 2)]]

Files(n) == { FileOf(Samples(n, first)) : first \in 0..2 }

\* the k-th position of an axis: k steps of 1 / (2 * PosSteps) of a square from
\* the center of the bottom left square
PosRange(samples) == (-(PosSteps + 1))..(2 * PosSteps * (samples - 1) + PosSteps + 1)

PosAt(center, square, k) == FAdd(center, FMul(Fraction(k, 2 * PosSteps), square))

Position(klat, klng) ==
    <<PosAt(bottom_left_center[1], square_height, klat),
      PosAt(bottom_left_center[2], square_width, klng)>>

\* positions given as Fractions
FractionPositions ==
    { Position(klat, klng) : klat \in PosRange(sample_lat), klng \in PosRange(sample_lng) }

\* the float next to the float f # 0, upwards and downwards
\* the float after a > 0 of exponent e, and the float before it
FloatAfter(a, e) == FAdd(a, FPow2(e))

FloatBefore(a, e) == FSub(a, FPow2(IF a = FPow2(e + FloatBits - 1) THEN e - 1 ELSE e))

FloatAbove(f) ==
    (IF f[1] > 0 THEN FloatAfter(<<f[1], f[2]>>, Exponent(f))
     ELSE FNeg(FloatBefore(FNeg(f), Exponent(FNeg(f))))) \o <<"float">>

FloatBelow(f) ==
    (IF f[1] > 0 THEN FloatBefore(<<f[1], f[2]>>, Exponent(f))
     ELSE FNeg(FloatAfter(FNeg(f), Exponent(FNeg(f))))) \o <<"float">>

\* the floats of an axis: the float of the center of every square, and the
\* float of each edge of the area with the floats next to it on both sides
FloatAxis(center, square, samples) ==
    { Float(PosAt(center, square, 2 * PosSteps * j)) : j \in 0..(samples - 1) }
    \union UNION { { Float(edge), FloatAbove(Float(edge)), FloatBelow(Float(edge)) } :
                     edge \in { PosAt(center, square, -PosSteps),
                                PosAt(center, square, 2 * PosSteps * (samples - 1) + PosSteps) } }

\* positions given as floats
FloatPositions ==
    { <<lat, lng>> : lat \in FloatAxis(bottom_left_center[1], square_height, sample_lat),
                     lng \in FloatAxis(bottom_left_center[2], square_width, sample_lng) }

Positions == FractionPositions \union FloatPositions

Lines == (-2)..(MaxSample + 1)

-----------------------------------------------------------------------------
(* Initial state: a parser constructed on an existing file, not entered *)

Init ==
    /\ filename \in Filenames
    /\ sample_lat \in 2..MaxSample
    /\ sample_lng \in 2..MaxSample
    /\ data \in Files(sample_lat * sample_lng)
    /\ python3 \in BOOLEAN
    /\ square_width = Fraction(1, sample_lng - 1)
    /\ square_height = Fraction(1, sample_lat - 1)
    /\ area_width = FAdd(FInt(1), square_width)
    /\ area_height = FAdd(FInt(1), square_height)
    /\ bottom_left_center = _get_bottom_left_center(filename)
    /\ corners = _get_corners_from_filename(bottom_left_center)
    /\ top_left_square = _get_top_left_square
    /\ file = <<>>
    /\ vit = <<>>
    /\ vout = <<>>
    /\ vlast = <<>>
    /\ vraised = 0
    /\ vstopped = 0
    /\ sit = <<>>
    /\ sout = <<>>
    /\ slast = <<>>
    /\ sstopped = 0
    /\ call = <<>>

-----------------------------------------------------------------------------
(* Actions *)

\* the program is sequential: a call starts when the one before has returned
Idle == call = <<>>

\* __enter__
Enter ==
    /\ Idle
    /\ file' = <<"rb">>
    /\ UNCHANGED <<parser_vars, value_vars, sample_vars, call>>

\* __exit__
Exit ==
    /\ Idle
    /\ file' = IF file # <<>> THEN <<>> ELSE file
    /\ UNCHANGED <<parser_vars, value_vars, sample_vars, call>>

\* get_value_iterator: the model follows one iterator of each class, from its
\* construction on; others would share nothing with it but the parser
GetValueIterator ==
    /\ Idle
    /\ vit = <<>>
    /\ \E as_float \in BOOLEAN :
            /\ vit' = <<NewValueIterator(as_float)>>
            /\ UNCHANGED <<parser_vars, file, vout, vlast, vraised, vstopped, sample_vars, call>>

ValueNext ==
    /\ Idle
    /\ vit # <<>>
    /\ LET r == value_next(vit[1])
       IN  /\ r[1][1] = "raise" => vraised < MaxRaised
           /\ r[1][1] = "stop" => vstopped < MaxStopped
           /\ vit' = <<r[2]>>
           /\ vout' = IF r[1][1] = "ok" THEN Append(vout, r[1][2]) ELSE vout
           /\ vlast' = r[1]
           /\ vraised' = IF r[1][1] = "raise" THEN vraised + 1 ELSE vraised
           /\ vstopped' = IF r[1][1] = "stop" THEN vstopped + 1 ELSE vstopped
    /\ UNCHANGED <<parser_vars, file, sample_vars, call>>

\* get_sample_iterator
GetSampleIterator ==
    /\ Idle
    /\ sit = <<>>
    /\ \E width \in 1..MaxBlock, height \in 1..MaxBlock, as_float \in BOOLEAN :
            /\ sit' = <<NewSampleIterator(width, height, as_float)>>
            /\ UNCHANGED <<parser_vars, file, value_vars, sout, slast, sstopped, call>>

SampleNext ==
    /\ Idle
    /\ sit # <<>>
    /\ LET r == sample_next(sit[1])
       IN  /\ r[1][1] = "stop" => sstopped < MaxStopped
           /\ sit' = <<r[2]>>
           /\ sout' = IF r[1][1] = "ok" THEN Append(sout, r[1][2]) ELSE sout
           /\ slast' = r[1]
           /\ sstopped' = IF r[1][1] = "stop" THEN sstopped + 1 ELSE sstopped
    /\ UNCHANGED <<parser_vars, file, value_vars, call>>

CallIsInside ==
    /\ Idle
    /\ \E pos \in Positions :
            /\ call' = <<"is_inside", <<pos>>, <<"ok", is_inside(pos)>>>>
            /\ UNCHANGED <<parser_vars, file, value_vars, sample_vars>>

CallGetIdxInFile ==
    /\ Idle
    /\ \E pos \in Positions :
            /\ call' = <<"get_idx_in_file", <<pos>>, get_idx_in_file(pos)>>
            /\ UNCHANGED <<parser_vars, file, value_vars, sample_vars>>

CallGetElevation ==
    /\ Idle
    /\ \E pos \in Positions :
            /\ call' = <<"get_elevation", <<pos>>, get_elevation(pos)>>
            /\ UNCHANGED <<parser_vars, file, value_vars, sample_vars>>

CallGetIdx ==
    /\ Idle
    /\ \E col \in Lines, line \in Lines :
            /\ call' = <<"get_idx", <<col, line>>, get_idx(col, line)>>
            /\ UNCHANGED <<parser_vars, file, value_vars, sample_vars>>

CallShiftFirstSquare ==
    /\ Idle
    /\ \E line \in Lines, col \in Lines :
            /\ call' = <<"shift_first_square", <<line, col>>, shift_first_square(line, col)>>
            /\ UNCHANGED <<parser_vars, file, value_vars, sample_vars>>

CallGetSquareCorners ==
    /\ Idle
    /\ \E line \in Lines, col \in Lines :
            /\ call' = <<"get_square_corners", <<line, col>>,
                         <<"ok", get_square_corners(line, col)>>>>
            /\ UNCHANGED <<parser_vars, file, value_vars, sample_vars>>

\* the caller takes the outcome of the call
Return ==
    /\ ~Idle
    /\ call' = <<>>
    /\ UNCHANGED <<parser_vars, file, value_vars, sample_vars>>

-----------------------------------------------------------------------------
(* Specifications *)

\* the parser's methods, called one after the other
NextLookup ==
    \/ Enter
    \/ Exit
    \/ CallIsInside
    \/ CallGetIdxInFile
    \/ CallGetElevation
    \/ CallGetIdx
    \/ CallShiftFirstSquare
    \/ CallGetSquareCorners
    \/ Return

SpecLookup == Init /\ [][NextLookup]_vars

\* a value iterator, advanced while the parser is entered and left
NextValue ==
    \/ Enter
    \/ Exit
    \/ GetValueIterator
    \/ ValueNext

SpecValue == Init /\ [][NextValue]_vars

\* a sample iterator, advanced while the parser is entered and left
NextSample ==
    \/ Enter
    \/ Exit
    \/ GetSampleIterator
    \/ SampleNext

SpecSample == Init /\ [][NextSample]_vars

Next ==
    \/ NextLookup
    \/ NextValue
    \/ NextSample

Spec == Init /\ [][Next]_vars

\* the parser entered and left, with the calls that read the file, made by
\* one user of the parser: get_elevation, or next() of one iterator (the
\* users share nothing but the parser, which their calls do not modify)
NextScope ==
    \/ Enter
    \/ Exit
    \/ (vit = <<>> /\ sit = <<>> /\ CallGetElevation)
    \/ Return
    \/ (sit = <<>> /\ GetValueIterator)
    \/ (sit = <<>> /\ ValueNext)
    \/ (vit = <<>> /\ GetSampleIterator)
    \/ (vit = <<>> /\ SampleNext)

SpecScope == Init /\ [][NextScope]_vars

-----------------------------------------------------------------------------
(* What the properties are stated with *)

\* the samples the file was written from, sample idx at index idx + 1
StoredSamples ==
    CHOOSE samples \in { Samples(sample_lat * sample_lng, first) : first \in 0..2 } :
        FileOf(samples) = data

\* the least q with q * b >= a, for a >= 0 and b > 0
CeilDiv(a, b) == CHOOSE q \in 0..a : q * b >= a /\ (q = 0 \/ (q - 1) * b < a)

\* the middle of the bottom left and top right corners of square (row, col)
CellCenter(row, col) ==
    LET c == get_square_corners(row, col)
    IN  <<FDiv(FAdd(c[1][1], c[3][1]), FInt(2)), FDiv(FAdd(c[1][2], c[3][2]), FInt(2))>>

\* how many steps of 1 / (2 * PosSteps) of a square lie between center and p
StepsFrom(center, square, p) ==
    FMul(FDiv(FSub(p, center), square), FInt(2 * PosSteps))

InGrid(row, col) == 0 <= row /\ row < sample_lat /\ 0 <= col /\ col < sample_lng

Called(name) == call # <<>> /\ call[1] = name

\* area b, as next() of the sample iterator returned it, holds sample (row, col)
Holds(b, row, col) ==
    /\ b[1] <= row /\ row < b[1] + Len(b[5])
    /\ b[2] <= col /\ col < b[2] + Len(b[5][row - b[1] + 1])

-----------------------------------------------------------------------------
(* C1: with no call of next() failing (the file is open at each), the k-th  *)
(* item of a value iterator, k from 0, has index k, line k div sample_lng   *)
(* and column k mod sample_lng, and StopIteration comes after exactly       *)
(* sample_lat * sample_lng items.                                           *)
C1_ValueIteratorRowMajor ==
    (vit # <<>> /\ vraised = 0) =>
        /\ Len(vout) <= sample_lat * sample_lng
        /\ \A k \in 1..Len(vout) :
              /\ vout[k][3] = k - 1
              /\ vout[k][1] = (k - 1) \div sample_lng
              /\ vout[k][2] = (k - 1) % sample_lng
        /\ vlast = <<"stop">> => Len(vout) = sample_lat * sample_lng
        /\ vlast # <<"stop">> => vit[1].idx = Len(vout)

C1_Witness ==
    /\ vraised = 0
    /\ vlast = <<"stop">>
    /\ Len(vout) = sample_lat * sample_lng
    /\ sample_lat # sample_lng

-----------------------------------------------------------------------------
(* C2: the areas a sample iterator returns lie inside the grid, overlap     *)
(* nowhere, are smaller than height x width only at the bottom and right    *)
(* edges, and at StopIteration hold every sample of the grid exactly once.  *)
C2_BlocksPartitionGrid ==
    sit # <<>> =>
        /\ \A k \in 1..Len(sout) :
              LET b == sout[k]
                  rows == Len(b[5])
              IN  /\ rows >= 1 /\ rows <= sit[1].height
                  /\ b[1] >= 0 /\ b[1] + rows <= sample_lat
                  /\ rows < sit[1].height => b[1] + rows = sample_lat
                  /\ \A i \in 1..rows :
                        LET cols == Len(b[5][i])
                        IN  /\ cols >= 1 /\ cols <= sit[1].width
                            /\ cols = Len(b[5][1])
                            /\ b[2] >= 0 /\ b[2] + cols <= sample_lng
                            /\ cols < sit[1].width => b[2] + cols = sample_lng
        /\ \A row \in 0..(sample_lat - 1), col \in 0..(sample_lng - 1) :
              LET holders == {k \in 1..Len(sout) : Holds(sout[k], row, col)}
              IN  /\ Cardinality(holders) <= 1
                  /\ slast = <<"stop">> => Cardinality(holders) = 1

C2_Witness ==
    /\ sit # <<>>
    /\ slast = <<"stop">>
    /\ Len(sout) > 2
    /\ \E k \in 1..Len(sout) : Len(sout[k][5]) < sit[1].height
    /\ \E k \in 1..Len(sout) : Len(sout[k][5][1]) < sit[1].width

-----------------------------------------------------------------------------
(* C3: get_idx_in_file at the center of square (row, col) of the grid       *)
(* returns (row, col, row * sample_lng + col).                              *)
C3_LocateCellCenter ==
    \A row \in 0..(sample_lat - 1), col \in 0..(sample_lng - 1) :
        (Called("get_idx_in_file") /\ call[2] = <<CellCenter(row, col)>>) =>
            call[3] = <<"ok", <<row, col, row * sample_lng + col>>>>

C3_Witness ==
    /\ Called("get_idx_in_file")
    /\ sample_lat # sample_lng
    /\ call[2] = <<CellCenter(0, sample_lng - 1)>>
    /\ call[3][1] = "ok"

-----------------------------------------------------------------------------
(* C4: is_inside is true exactly when the position is strictly between the *)
(* bottom left and the top right corner on both axes, that is less than     *)
(* half a square beyond the centers of the outermost squares; it is false   *)
(* on every edge and outside.                                               *)
C4_ContainsStrict ==
    Called("is_inside") =>
        LET p == call[2][1]
            klat == StepsFrom(bottom_left_center[1], square_height, p[1])
            klng == StepsFrom(bottom_left_center[2], square_width, p[2])
        IN  /\ call[3][1] = "ok"
            /\ call[3][2] <=> /\ FLt(corners[1][1], p[1]) /\ FLt(p[1], corners[3][1])
                              /\ FLt(corners[1][2], p[2]) /\ FLt(p[2], corners[3][2])
            /\ call[3][2] <=> /\ FLt(FInt(-PosSteps), klat)
                              /\ FLt(klat, FInt(2 * PosSteps * (sample_lat - 1) + PosSteps))
                              /\ FLt(FInt(-PosSteps), klng)
                              /\ FLt(klng, FInt(2 * PosSteps * (sample_lng - 1) + PosSteps))

\* a position on the bottom edge, between the left and the right edge
C4_Witness ==
    /\ Called("is_inside")
    /\ call[2][1][1] = corners[1][1]
    /\ FLt(corners[1][2], call[2][1][2])
    /\ FLt(call[2][1][2], corners[3][2])
    /\ call[3] = <<"ok", FALSE>>

-----------------------------------------------------------------------------
-----------------------------------------------------------------------------
(* C6: an item of the value iterator whose sample is stored as the void     *)
(* value -32768 does not carry -32768 as its value.                         *)
C6_ValueIteratorVoidAbsent ==
    \A k \in 1..Len(vout) :
        StoredSamples[vout[k][3] + 1] = VOID_VALUE => vout[k][5] # VOID_VALUE

-----------------------------------------------------------------------------
(* C7: get_idx_in_file raises its not-inside error exactly when is_inside   *)
(* is false; otherwise it returns a line in 0..sample_lat - 1, a column in  *)
(* 0..sample_lng - 1 and the index line * sample_lng + column, which is an  *)
(* index of a sample of the file.                                           *)
C7_LocateInsideInGrid ==
    Called("get_idx_in_file") =>
        LET p == call[2][1]
        IN  IF is_inside(p)
            THEN /\ call[3][1] = "ok"
                 /\ InGrid(call[3][2][1], call[3][2][2])
                 /\ call[3][2][3] = call[3][2][1] * sample_lng + call[3][2][2]
                 /\ call[3][2][3] \in 0..(sample_lat * sample_lng - 1)
                 /\ 2 * call[3][2][3] + 2 <= Len(data)
            ELSE call[3] = NotInside

-----------------------------------------------------------------------------
(* C8: shift_first_square raises its out of bound error exactly when the    *)
(* line is outside 0..sample_lat - 1 or the column outside                  *)
(* 0..sample_lng - 1; otherwise it returns the corners get_square_corners   *)
(* returns, the corners of the top left square moved by line squares down   *)
(* and col squares to the right.                                            *)
C8_ShiftChecksBounds ==
    Called("shift_first_square") =>
        LET line == call[2][1]
            col == call[2][2]
        IN  IF InGrid(line, col)
            THEN /\ call[3] = <<"ok", get_square_corners(line, col)>>
                 /\ Len(call[3][2]) = 4
                 /\ \A i \in 1..4 :
                       call[3][2][i] =
                           <<FSub(top_left_square[i][1], FMul(FInt(line), square_height)),
                             FAdd(top_left_square[i][2], FMul(FInt(col), square_width))>>
            ELSE call[3] = OutOfBound

C8_Witness ==
    /\ Called("shift_first_square")
    /\ call[2] = <<sample_lat - 1, 1>>
    /\ sample_lat = 3
    /\ call[3][1] = "ok"

-----------------------------------------------------------------------------
(* C9: get_idx returns line * sample_lng + col, an index in                 *)
(* 0..sample_lat * sample_lng - 1, when the line is in 0..sample_lat - 1    *)
(* and the column in 0..sample_lng - 1, and raises its out of bound error   *)
(* for every other pair.                                                    *)
C9_LinearIndex ==
    Called("get_idx") =>
        LET col == call[2][1]
            line == call[2][2]
        IN  IF InGrid(line, col)
            THEN /\ call[3] = <<"ok", line * sample_lng + col>>
                 /\ call[3][2] \in 0..(sample_lat * sample_lng - 1)
            ELSE call[3] = OutOfBound

C9_Witness ==
    /\ Called("get_idx")
    /\ sample_lat # sample_lng
    /\ call[2] = <<sample_lng - 1, sample_lat - 1>>
    /\ call[3] = <<"ok", sample_lat * sample_lng - 1>>

-----------------------------------------------------------------------------
(* C10: nb_values of a sample iterator is ceil(sample_lat / height) *       *)
(* ceil(sample_lng / width), and at StopIteration the iterator has returned *)
(* exactly nb_values areas.                                                 *)
C10_BlockCount ==
    sit # <<>> =>
        /\ sample_nb_values(sit[1]) = CeilDiv(sample_lat, sit[1].height)
                                      * CeilDiv(sample_lng, sit[1].width)
        /\ Len(sout) <= sample_nb_values(sit[1])
        /\ slast = <<"stop">> => Len(sout) = sample_nb_values(sit[1])

C10_Witness ==
    /\ sit # <<>>
    /\ slast = <<"stop">>
    /\ sample_lat % sit[1].height # 0
    /\ sample_lng % sit[1].width # 0
    /\ Len(sout) = 4

-----------------------------------------------------------------------------
\* the smallest rectangle around the squares of area b: from the top left
\* corner of its first square to the bottom right corner of its last one
BoxOfSquares(b) ==
    LET top_left == get_square_corners(b[1], b[2])[2]
        bottom_right == get_square_corners(b[1] + Len(b[5]) - 1,
                                           b[2] + Len(b[5][1]) - 1)[4]
    IN  << <<bottom_right[1], top_left[2]>>,
           top_left,
           <<top_left[1], bottom_right[2]>>,
           bottom_right >>

\* a <= b
FLe(a, b) == ~FLt(b, a)

\* rectangle box, bottom left corner first and top right corner third, lies
\* in rectangle outer
Within(box, outer) ==
    /\ FLe(outer[1][1], box[1][1]) /\ FLe(box[3][1], outer[3][1])
    /\ FLe(outer[1][2], box[1][2]) /\ FLe(box[3][2], outer[3][2])

(* C11: the corners of every area a sample iterator returns are, converted  *)
(* as the iterator converts them, the rectangle around the squares the area *)
(* holds: Len(values[0]) squares east and Len(values) squares south of the  *)
(* top left corner of its first square; it lies within the corners of the   *)
(* parser, also for the smaller areas of the right column and bottom band.  *)
C11_BlockCornersFromActualSize ==
    sit # <<>> =>
        \A k \in 1..Len(sout) :
            LET b == sout[k]
                top_left == get_square_corners(b[1], b[2])[2]
            IN  /\ b[4] = format_corners(sit[1], BoxOfSquares(b))
                /\ b[4][2] = <<to_float(sit[1], top_left[1]), to_float(sit[1], top_left[2])>>
                /\ BoxOfSquares(b)[4] =
                      <<FSub(top_left[1], FMul(FInt(Len(b[5])), square_height)),
                        FAdd(top_left[2], FMul(FInt(Len(b[5][1])), square_width))>>
                /\ Within(BoxOfSquares(b), corners)
                /\ Within(b[4], format_corners(sit[1], corners))

\* an area cut on both sides by the edges of the grid, with float corners
C11_Witness ==
    /\ sit # <<>> /\ sit[1].as_float
    /\ slast # <<>> /\ slast[1] = "ok"
    /\ slast[2][1] > 0 /\ slast[2][2] > 0
    /\ Len(slast[2][5]) < sit[1].height
    /\ Len(slast[2][5][1]) < sit[1].width
    /\ slast[2][4][4] # BoxOfSquares(slast[2])[4]
    /\ \E k \in 1..Len(sout) : Len(sout[k][5]) # Len(sout[k][5][1])

-----------------------------------------------------------------------------
(* C12: while the file is not open, before __enter__ and after __exit__,    *)
(* get_elevation raises, and next() of a value iterator or of a sample      *)
(* iterator that has a sample left to read raises and returns no item;      *)
(* after __exit__ the file is not open.                                     *)
C12_ClosedSourceFails ==
    [][ /\ (file = <<>> /\ vit # <<>> /\ value_vars' # value_vars) =>
              /\ vout' = vout
              /\ IF vit[1].idx < sample_lat * sample_lng
                 THEN vlast'[1] = "raise" /\ vraised' = vraised + 1
                 ELSE vlast' = <<"stop">> /\ vstopped' = vstopped + 1
        /\ (file = <<>> /\ sit # <<>> /\ sample_vars' # sample_vars) =>
              /\ sout' = sout
              /\ IF Len(sout) < sample_nb_values(sit[1])
                 THEN slast'[1] = "raise"
                 ELSE slast' = <<"stop">>
        /\ (file = <<>> /\ call = <<>> /\ call' # <<>>) => call'[3][1] = "raise"
        /\ Exit => file' = <<>>
      ]_vars

\* an iterator that returned items while the file was open has raised after
\* the parser was left, with samples left to read
C12_Witness ==
    /\ file = <<>>
    /\ vit # <<>> /\ Len(vout) > 0
    /\ vlast = <<"raise", "AttributeError">>
    /\ vit[1].idx < sample_lat * sample_lng

-----------------------------------------------------------------------------
(* C13: once next() of a value iterator or of a sample iterator has raised  *)
(* StopIteration, every later call of it raises StopIteration again: it     *)
(* returns no further item, raises no other error and leaves the iterator   *)
(* as it is, whether the file is open or not.                               *)
C13_SinglePass ==
    [][ /\ (vit # <<>> /\ vlast = <<"stop">>) =>
              /\ vit' = vit /\ vout' = vout /\ vraised' = vraised
              /\ vlast' = <<"stop">>
              /\ vit[1].idx = sample_lat * sample_lng
        /\ (sit # <<>> /\ slast = <<"stop">>) =>
              /\ sit' = sit /\ sout' = sout
              /\ slast' = <<"stop">>
              /\ sit[1].idx_line = Len(sit[1].range_line) /\ sit[1].idx_col = 0
      ]_vars

\* StopIteration raised again after the parser was left and entered anew
C13_Witness ==
    /\ sit # <<>> /\ slast = <<"stop">> /\ sstopped = MaxStopped
    /\ Len(sout) > 1
    /\ file # <<>>
    /\ sit[1].width < sample_lng

-----------------------------------------------------------------------------
\* half a square on each axis
HalfSquare == <<FDiv(square_height, FInt(2)), FDiv(square_width, FInt(2))>>

\* the degrees a file name states: the digits after N or S and after W or E,
\* negative after S and after W
NamedDegrees ==
    LET groups == FilenameGroups(filename)
    IN  <<(IF groups[1] = "S" THEN -1 ELSE 1) * ParseInt(groups[2]),
          (IF groups[3] = "W" THEN -1 ELSE 1) * ParseInt(groups[4])>>

(* C14, as stated: the center of the bottom left square plus half a square  *)
(* on each axis is the bottom left corner of the area.                      *)
C14_CenterPlusHalfIsCorner ==
    /\ FAdd(bottom_left_center[1], HalfSquare[1]) = corners[1][1]
    /\ FAdd(bottom_left_center[2], HalfSquare[2]) = corners[1][2]

(* C14, amended: the center of the bottom left square is at the degrees the *)
(* file name states, and the bottom left corner of the area plus half a     *)
(* square on each axis is that center: the corner lies half a square south  *)
(* and west of the center.                                                  *)
C14_CornerPlusHalfIsCenter ==
    /\ bottom_left_center = <<FInt(NamedDegrees[1]), FInt(NamedDegrees[2])>>
    /\ FAdd(corners[1][1], HalfSquare[1]) = bottom_left_center[1]
    /\ FAdd(corners[1][2], HalfSquare[2]) = bottom_left_center[2]
    /\ FLt(corners[1][1], bottom_left_center[1])
    /\ FLt(corners[1][2], bottom_left_center[2])

\* a parser of a file named for the south and the west, squares not square
C14_Witness ==
    /\ FilenameGroups(filename)[1] = "S" /\ FilenameGroups(filename)[3] = "W"
    /\ NamedDegrees = <<-20, -3>>
    /\ sample_lat # sample_lng
    /\ corners[1] = <<FSub(FInt(-20), HalfSquare[1]), FSub(FInt(-3), HalfSquare[2])>>
    /\ file # <<>>

-----------------------------------------------------------------------------
(* C15: a call of next() of a value iterator in which get_value raises      *)
(* leaves idx as it was, so the items returned carry the indexes 0, 1, 2,   *)
(* ... with none left out, and idx is the number of items returned.         *)
C15_FailedReadKeepsCursor ==
    vit # <<>> =>
        /\ \A k \in 1..Len(vout) : vout[k][3] = k - 1
        /\ vit[1].idx = Len(vout)

-----------------------------------------------------------------------------
(* C16: with nbc = ceil(sample_lng / width), the k-th area a sample         *)
(* iterator returns, k from 0, has its top left square at line              *)
(* (k div nbc) * height and column (k mod nbc) * width, and carries the     *)
(* index line * sample_lng + column: the areas of a band come from left to  *)
(* right, before any area of the band below.                                *)
C16_BlocksRowMajor ==
    sit # <<>> =>
        LET nbc == CeilDiv(sample_lng, sit[1].width)
        IN  /\ \A k \in 1..Len(sout) :
                  /\ sout[k][1] = ((k - 1) \div nbc) * sit[1].height
                  /\ sout[k][2] = ((k - 1) % nbc) * sit[1].width
                  /\ sout[k][3] = sout[k][1] * sample_lng + sout[k][2]
            /\ \A j \in 1..Len(sout), k \in 1..Len(sout) :
                  j < k => \/ sout[j][1] < sout[k][1]
                           \/ sout[j][1] = sout[k][1] /\ sout[j][2] < sout[k][2]

\* two bands of two areas each, returned to the end, the areas not square
C16_Witness ==
    /\ sit # <<>> /\ slast = <<"stop">>
    /\ sit[1].width # sit[1].height
    /\ Len(sout) = 4
    /\ sout[2][1] = 0 /\ sout[2][2] = sit[1].width
    /\ sout[3][1] = sit[1].height /\ sout[3][2] = 0
    /\ sout[4][3] = sit[1].height * sample_lng + sit[1].width

-----------------------------------------------------------------------------
\* position p lies strictly inside square (row, col)
InsideSquare(p, row, col) ==
    LET c == get_square_corners(row, col)
    IN  /\ FLt(c[1][1], p[1]) /\ FLt(p[1], c[3][1])
        /\ FLt(c[1][2], p[2]) /\ FLt(p[2], c[3][2])

(* C17: for every square (row, col) of the grid and every position strictly *)
(* inside its corners, get_idx_in_file returns (row, col, ...), also in the *)
(* half square between the edge of the area and the centers of its outer    *)
(* squares.                                                                 *)
C17_LocateInsideCell ==
    Called("get_idx_in_file") =>
        \A row \in 0..(sample_lat - 1), col \in 0..(sample_lng - 1) :
            InsideSquare(call[2][1], row, col) =>
                /\ call[3][1] = "ok"
                /\ call[3][2][1] = row
                /\ call[3][2][2] = col

=============================================================================
